---- MODULE Spec2Model ----
(* Model of the DARA syscall interposition layer of the os package:       *)
(* stat_unix.go / file_unix.go (src/unnamed/part_000), pipe_linux.go,      *)
(* executable.go and the dara syscall catalog (dara/sysnum.go).            *)
(* Every goroutine ("thread") runs one wrapper at a time; a wrapper is     *)
(* stepped statement group by statement group: the real operation, the     *)
(* instrumentation block, the blocking report, the return.                 *)
EXTENDS Integers, Sequences, FiniteSets, TLC

VARIABLES gate, fr, channel, ForkLock, goos

vars == <<gate, fr, channel, ForkLock, goos>>

(* ---------------------------------------------------------------- bounds *)
StringCap == 2
MaxBuf == 2
MaxOff == 1
MaxEintr == 2

Threads == {"t1"}

(* ------------------------------------------------------- Syscall Catalog *)
DSYS_READ == 0
DSYS_WRITE == 1
(* DSYS_OPEN given the number of DSYS_CLOSE *)
DSYS_OPEN_clash == 2 + 1
DSYS_OPEN == 2
DSYS_CLOSE == 3
DSYS_STAT == 4
DSYS_FSTAT == 5
DSYS_LSTAT == 6
DSYS_LSEEK == 7
DSYS_PREAD64 == 8
DSYS_PWRITE64 == 9
DSYS_EXECUTABLE == 11
DSYS_RENAME == 25
DSYS_TRUNCATE == 26
DSYS_UNLINK == 27
DSYS_RMDIR == 28
DSYS_LINK == 29
DSYS_SYMLINK == 30
DSYS_PIPE2 == 31

DSYS_GETPAGESIZE == 10
DSYS_GETPID == 12
DSYS_GETPPID == 13
DSYS_GETWD == 14
DSYS_READDIR == 15
DSYS_READDIRNAMES == 16
DSYS_WAIT4 == 17
DSYS_KILL == 18
DSYS_GETUID == 19
DSYS_GETEUID == 20
DSYS_GETGID == 21
DSYS_GETEGID == 22
DSYS_GETGROUPS == 23
DSYS_EXIT == 24
DSYS_MKDIR == 32
DSYS_CHDIR == 33
DSYS_UNSETENV == 34
DSYS_GETENV == 35
DSYS_SETENV == 36
DSYS_CLEARENV == 37
DSYS_ENVIRON == 38
DSYS_TIMENOW == 39
DSYS_READLINK == 40
DSYS_CHMOD == 41
DSYS_FCHMOD == 42
DSYS_CHOWN == 43
DSYS_LCHOWN == 44
DSYS_FCHOWN == 45
DSYS_FTRUNCATE == 46
DSYS_FSYNC == 47
DSYS_UTIMES == 48
DSYS_FCHDIR == 49
DSYS_SETDEADLINE == 50
DSYS_SETREADDEADLINE == 51
DSYS_SETWRITEDEADLINE == 52
DSYS_NET_READ == 53
DSYS_NET_WRITE == 54
DSYS_NET_CLOSE == 55
DSYS_NET_SETDEADLINE == 56
DSYS_NET_SETREADDEADLINE == 57
DSYS_NET_SETWRITEDEADLINE == 58
DSYS_NET_SETREADBUFFER == 59
DSYS_NET_SETWRITEBUFFER == 60
DSYS_SOCKET == 61
DSYS_LISTEN_TCP == 62
DSYS_SLEEP == 63

(* the const block of sysnum.go, top to bottom *)
DeclarationOrder ==
  <<DSYS_READ, DSYS_WRITE, DSYS_OPEN, DSYS_CLOSE,
    DSYS_STAT, DSYS_FSTAT, DSYS_LSTAT, DSYS_LSEEK,
    DSYS_PREAD64, DSYS_PWRITE64, DSYS_GETPAGESIZE, DSYS_EXECUTABLE,
    DSYS_GETPID, DSYS_GETPPID, DSYS_GETWD, DSYS_READDIR,
    DSYS_READDIRNAMES, DSYS_WAIT4, DSYS_KILL, DSYS_GETUID,
    DSYS_GETEUID, DSYS_GETGID, DSYS_GETEGID, DSYS_GETGROUPS,
    DSYS_EXIT, DSYS_RENAME, DSYS_TRUNCATE, DSYS_UNLINK,
    DSYS_RMDIR, DSYS_LINK, DSYS_SYMLINK, DSYS_PIPE2,
    DSYS_MKDIR, DSYS_CHDIR, DSYS_UNSETENV, DSYS_GETENV,
    DSYS_SETENV, DSYS_CLEARENV, DSYS_ENVIRON, DSYS_TIMENOW,
    DSYS_READLINK, DSYS_CHMOD, DSYS_FCHMOD, DSYS_CHOWN,
    DSYS_LCHOWN, DSYS_FCHOWN, DSYS_FTRUNCATE, DSYS_FSYNC,
    DSYS_UTIMES, DSYS_FCHDIR, DSYS_SETDEADLINE, DSYS_SETREADDEADLINE,
    DSYS_SETWRITEDEADLINE, DSYS_NET_READ, DSYS_NET_WRITE, DSYS_NET_CLOSE,
    DSYS_NET_SETDEADLINE, DSYS_NET_SETREADDEADLINE, DSYS_NET_SETWRITEDEADLINE, DSYS_NET_SETREADBUFFER,
    DSYS_NET_SETWRITEBUFFER, DSYS_SOCKET, DSYS_LISTEN_TCP, DSYS_SLEEP>>

(* ---------------------------------------------------------- error values *)
Nil == [kind |-> "nil"]
Errno(e) == [kind |-> "Errno", e |-> e]
EIO == Errno("EIO")
ENOSYS == Errno("ENOSYS")
ENOTDIR == Errno("ENOTDIR")
EEXIST == Errno("EEXIST")
EINVAL == Errno("EINVAL")
EINTR == Errno("EINTR")
ErrInvalid == [kind |-> "ErrInvalid"]
ErrClosed == [kind |-> "ErrClosed"]
ErrFileClosing == [kind |-> "ErrFileClosing"]
PathError(op, path, e) == [kind |-> "PathError", Op |-> op, Path |-> path, Err |-> e]
LinkError(op, old, new, e) == [kind |-> "LinkError", Op |-> op, Old |-> old, New |-> new, Err |-> e]
NewSyscallError(call, e) == [kind |-> "SyscallError", Syscall |-> call, Err |-> e]

(* ------------------------------------------------------------ file names *)
Alphabet == <<"a", "b", "c", "d", "e", "f">>
Name(L) == SubSeq(Alphabet, 1, L)
Names == {Name(1), Name(StringCap + 1)}

(* a *File: nil, or a handle with the name newFile was given *)
NilFile == [nil |-> TRUE, name |-> <<>>]
newFile(fd, name) == IF fd < 0 THEN NilFile ELSE [nil |-> FALSE, name |-> name]
Files == {newFile(3, nm) : nm \in Names}

(* --------------------------------------------------------- Value Encoder *)
NUL == "NUL"
UNSUPPORTEDVAL == "UNSUPPORTEDVAL"
NoUnsupported == "zero"
NoType == "zero"
ZeroString == [i \in 1..StringCap |-> NUL]

(* the zero value of dara.GeneralType *)
GeneralType == [Type |-> NoType, Integer |-> 0, Integer64 |-> 0,
                String |-> ZeroString, Unsupported |-> NoUnsupported]

(* copy that stops one byte early *)
copy_short(dst, src) == [i \in 1..Len(dst) |-> IF i < Len(src) THEN src[i] ELSE dst[i]]

(* Go's builtin copy(dst[:], src): the first min(len(dst), len(src)) bytes *)
copy(dst, src) == [i \in 1..Len(dst) |-> IF i <= Len(src) THEN src[i] ELSE dst[i]]

GT_STRING(s) == [GeneralType EXCEPT !.Type = "STRING", !.String = copy(ZeroString, s)]
GT_FILE(s) == [GeneralType EXCEPT !.Type = "FILE", !.String = copy(ZeroString, s)]
GT_INTEGER(i) == [GeneralType EXCEPT !.Type = "INTEGER", !.Integer = i]
GT_INTEGER64(i) == [GeneralType EXCEPT !.Type = "INTEGER64", !.Integer64 = i]
GT_ARRAY(len) == [GeneralType EXCEPT !.Type = "ARRAY", !.Integer = len]
GT_POINTER == [GeneralType EXCEPT !.Type = "POINTER", !.Unsupported = UNSUPPORTEDVAL]
(* an Error slot with the Unsupported field left unset *)
GT_ERROR_bare == [GeneralType EXCEPT !.Type = "ERROR"]
GT_ERROR == [GeneralType EXCEPT !.Type = "ERROR", !.Unsupported = UNSUPPORTEDVAL]

(* ---------------------------------------------------------- Event Record *)
SlotCap == 10

(* the array literal [10]dara.GeneralType{...}: listed slots, rest zero *)
Slots(s) == [i \in 1..SlotCap |-> IF i <= Len(s) THEN s[i] ELSE GeneralType]

GeneralSyscall(id, nargs, nrets, args, rets) ==
  [SyscallNum |-> id, NumArgs |-> nargs, NumRets |-> nrets,
   Args |-> Slots(args), Rets |-> Slots(rets)]

NoInfo == GeneralSyscall(0, 0, 0, <<>>, <<>>)

(* ------------------------------------------------------------ call frames *)
Returned(vals) == [kind |-> "return", vals |-> vals]
Panicked == [kind |-> "panic", vals |-> <<>>]
NoRet == [kind |-> "none", vals |-> <<>>]

IdleFrame == [pc |-> "idle", op |-> "none", args |-> <<>>, env |-> <<>>,
              loc |-> <<>>, next |-> "idle",
              trace |-> <<>>, sent |-> <<>>, ev |-> <<>>, ret |-> NoRet]

(* entry into a wrapper: fresh locals, nothing traced or reported yet *)
Enter(op, args, env, loc, pc) ==
  [IdleFrame EXCEPT !.pc = pc, !.op = op, !.args = args, !.env = env, !.loc = loc]

CanCall(t) == fr[t].pc \in {"idle", "done"}

At(t, op, pc) == fr[t].op = op /\ fr[t].pc = pc

(* ---------------------------------------------------------- Profiling Gate *)
Is_dara_profiling_on == gate

(* ------------------------------------------------- diagnostic side channel *)
Dara_Debug_Print(f, line) == [f EXCEPT !.trace = Append(@, line)]

println(f, line) == [f EXCEPT !.trace = Append(@, line)]

(* ------------------------------------------------------ Reporting Channel *)
(* runtime.Report_Syscall_To_Scheduler(id, info): hand the record to the    *)
(* scheduler and block the caller until the scheduler lets it go.           *)
Deliver(t, f, msg, next) ==
  /\ fr' = [fr EXCEPT ![t] = [f EXCEPT !.pc = "blocked", !.next = next,
                                       !.sent = Append(@, msg),
                                       !.ev = Append(@, "report")]]
  /\ channel' = Append(channel, [thread |-> t, msg |-> msg])

Report_Syscall_To_Scheduler(t, f, id, info, next) ==
  Deliver(t, f, [id |-> id, hasInfo |-> TRUE, info |-> info], next)

(* syscall.Report_Syscall_To_Scheduler(id): the identity alone *)
syscall_Report_Syscall_To_Scheduler(t, f, id, next) ==
  Deliver(t, f, [id |-> id, hasInfo |-> FALSE, info |-> NoInfo], next)

(* the scheduler finishes with one held report; its caller resumes *)
SchedulerRelease(i) ==
  /\ i \in 1..Len(channel)
  /\ LET t == channel[i].thread IN
       /\ fr[t].pc = "blocked"
       /\ fr' = [fr EXCEPT ![t].pc = fr[t].next]
  /\ channel' = [j \in 1..(Len(channel) - 1) |-> IF j < i THEN channel[j] ELSE channel[j + 1]]
  /\ UNCHANGED <<goos, gate, ForkLock>>

(* the real operation of the running wrapper has completed *)
Did(f, what) == [f EXCEPT !.ev = Append(@, what)]

RealDone(f) == Did(f, "real")

(* return to the caller *)
Return(f, vals) == [f EXCEPT !.pc = "done", !.ret = Returned(vals)]

Panic(f) == [f EXCEPT !.pc = "done", !.ret = Panicked]

(* --------------------------------------------------------------- read *)
(* len(b): empty, MaxBuf, and one longer than a String slot *)
BufLens == {0, MaxBuf, StringCap + 1}
RWOutcomes(len) == {<<n, Nil>> : n \in {0, len}} \cup {<<0, EIO>>}

read_syscallInfo(f, lenb, n) ==
  GeneralSyscall(DSYS_READ, 2, 2, <<GT_FILE(f.name), GT_ARRAY(lenb)>>, <<GT_INTEGER(n), GT_ERROR>>)

read_call(t) ==
  /\ CanCall(t)
  /\ \E f \in Files, lenb \in BufLens : \E out \in RWOutcomes(lenb) :
       fr' = [fr EXCEPT ![t] = Enter("read", [f |-> f, b |-> Name(lenb)], out,
                                     [n |-> 0, err |-> Nil], "real")]
  /\ UNCHANGED <<goos, gate, channel, ForkLock>>

read_real(t) ==
  /\ At(t, "read", "real")
  /\ fr' = [fr EXCEPT ![t] = [RealDone(fr[t]) EXCEPT !.loc = [n |-> fr[t].env[1], err |-> fr[t].env[2]],
                                                     !.pc = "instr"]]
  /\ UNCHANGED <<goos, gate, channel, ForkLock>>

(* read with the gate test lost: reports whether or not profiling is on *)
read_instr_ungated(t) ==
  /\ At(t, "read", "instr")
  /\ Report_Syscall_To_Scheduler(t, Dara_Debug_Print(fr[t], "[READ]"), DSYS_READ,
        read_syscallInfo(fr[t].args.f, Len(fr[t].args.b), fr[t].loc.n), "ret")
  /\ UNCHANGED <<goos, gate, ForkLock>>

read_instr(t) ==
  /\ At(t, "read", "instr")
  /\ IF Is_dara_profiling_on
       THEN Report_Syscall_To_Scheduler(t, Dara_Debug_Print(fr[t], "[READ]"), DSYS_READ,
              read_syscallInfo(fr[t].args.f, Len(fr[t].args.b), fr[t].loc.n), "ret")
       ELSE fr' = [fr EXCEPT ![t].pc = "ret"] /\ UNCHANGED channel
  /\ UNCHANGED <<goos, gate, ForkLock>>

read_return(t) ==
  /\ At(t, "read", "ret")
  /\ fr' = [fr EXCEPT ![t] = Return(fr[t], <<fr[t].loc.n, fr[t].loc.err>>)]
  /\ UNCHANGED <<goos, gate, channel, ForkLock>>

(* --------------------------------------------------------------- pread *)
Offs == {0, MaxOff}

(* the PREAD64 record declaring two arguments while three are filled in *)
pread_syscallInfo_twoargs(f, lenb, off, n) ==
  GeneralSyscall(DSYS_PREAD64, 2, 2, <<GT_FILE(f.name), GT_ARRAY(lenb), GT_INTEGER64(off)>>,
                 <<GT_INTEGER(n), GT_ERROR>>)

pread_syscallInfo(f, lenb, off, n) ==
  GeneralSyscall(DSYS_PREAD64, 3, 2, <<GT_FILE(f.name), GT_ARRAY(lenb), GT_INTEGER64(off)>>,
                 <<GT_INTEGER(n), GT_ERROR>>)

pread_call(t) ==
  /\ CanCall(t)
  /\ \E f \in Files, lenb \in BufLens, off \in Offs : \E out \in RWOutcomes(lenb) :
       fr' = [fr EXCEPT ![t] = Enter("pread", [f |-> f, b |-> Name(lenb), off |-> off], out,
                                     [n |-> 0, err |-> Nil], "real")]
  /\ UNCHANGED <<goos, gate, channel, ForkLock>>

pread_real(t) ==
  /\ At(t, "pread", "real")
  /\ fr' = [fr EXCEPT ![t] = [RealDone(fr[t]) EXCEPT !.loc = [n |-> fr[t].env[1], err |-> fr[t].env[2]],
                                                     !.pc = "instr"]]
  /\ UNCHANGED <<goos, gate, channel, ForkLock>>

pread_instr(t) ==
  /\ At(t, "pread", "instr")
  /\ IF Is_dara_profiling_on
       THEN Report_Syscall_To_Scheduler(t, Dara_Debug_Print(fr[t], "[PREAD]"), DSYS_PREAD64,
              pread_syscallInfo(fr[t].args.f, Len(fr[t].args.b), fr[t].args.off, fr[t].loc.n), "ret")
       ELSE fr' = [fr EXCEPT ![t].pc = "ret"] /\ UNCHANGED channel
  /\ UNCHANGED <<goos, gate, ForkLock>>

pread_return(t) ==
  /\ At(t, "pread", "ret")
  /\ fr' = [fr EXCEPT ![t] = Return(fr[t], <<fr[t].loc.n, fr[t].loc.err>>)]
  /\ UNCHANGED <<goos, gate, channel, ForkLock>>

(* --------------------------------------------------------------- write *)
(* the WRITE record with the buffer length clipped to the String capacity *)
write_syscallInfo_clipped(f, lenb, n) ==
  GeneralSyscall(DSYS_WRITE, 2, 2,
                 <<GT_FILE(f.name), GT_ARRAY(IF lenb > StringCap THEN StringCap ELSE lenb)>>,
                 <<GT_INTEGER(n), GT_ERROR>>)

write_syscallInfo(f, lenb, n) ==
  GeneralSyscall(DSYS_WRITE, 2, 2, <<GT_FILE(f.name), GT_ARRAY(lenb)>>, <<GT_INTEGER(n), GT_ERROR>>)

write_call(t) ==
  /\ CanCall(t)
  /\ \E f \in Files, lenb \in BufLens : \E out \in RWOutcomes(lenb) :
       fr' = [fr EXCEPT ![t] = Enter("write", [f |-> f, b |-> Name(lenb)], out,
                                     [n |-> 0, err |-> Nil], "real")]
  /\ UNCHANGED <<goos, gate, channel, ForkLock>>

write_real(t) ==
  /\ At(t, "write", "real")
  /\ fr' = [fr EXCEPT ![t] = [RealDone(fr[t]) EXCEPT !.loc = [n |-> fr[t].env[1], err |-> fr[t].env[2]],
                                                     !.pc = "instr"]]
  /\ UNCHANGED <<goos, gate, channel, ForkLock>>

write_instr(t) ==
  /\ At(t, "write", "instr")
  /\ IF Is_dara_profiling_on
       THEN Report_Syscall_To_Scheduler(t, Dara_Debug_Print(fr[t], "[WRITE]"), DSYS_WRITE,
              write_syscallInfo(fr[t].args.f, Len(fr[t].args.b), fr[t].loc.n), "ret")
       ELSE fr' = [fr EXCEPT ![t].pc = "ret"] /\ UNCHANGED channel
  /\ UNCHANGED <<goos, gate, ForkLock>>

write_return(t) ==
  /\ At(t, "write", "ret")
  /\ fr' = [fr EXCEPT ![t] = Return(fr[t], <<fr[t].loc.n, fr[t].loc.err>>)]
  /\ UNCHANGED <<goos, gate, channel, ForkLock>>

(* --------------------------------------------------------------- pwrite *)
pwrite_syscallInfo(f, lenb, off, n) ==
  GeneralSyscall(DSYS_PWRITE64, 3, 2, <<GT_FILE(f.name), GT_ARRAY(lenb), GT_INTEGER64(off)>>,
                 <<GT_INTEGER(n), GT_ERROR>>)

pwrite_call(t) ==
  /\ CanCall(t)
  /\ \E f \in Files, lenb \in BufLens, off \in Offs : \E out \in RWOutcomes(lenb) :
       fr' = [fr EXCEPT ![t] = Enter("pwrite", [f |-> f, b |-> Name(lenb), off |-> off], out,
                                     [n |-> 0, err |-> Nil], "instr")]
  /\ UNCHANGED <<goos, gate, channel, ForkLock>>

pwrite_instr(t) ==
  /\ At(t, "pwrite", "instr")
  /\ IF Is_dara_profiling_on
       THEN Report_Syscall_To_Scheduler(t, Dara_Debug_Print(fr[t], "[PWRITE]"), DSYS_PWRITE64,
              pwrite_syscallInfo(fr[t].args.f, Len(fr[t].args.b), fr[t].args.off, fr[t].loc.n), "real")
       ELSE fr' = [fr EXCEPT ![t].pc = "real"] /\ UNCHANGED channel
  /\ UNCHANGED <<goos, gate, ForkLock>>

pwrite_real(t) ==
  /\ At(t, "pwrite", "real")
  /\ fr' = [fr EXCEPT ![t] = [RealDone(fr[t]) EXCEPT !.loc = [n |-> fr[t].env[1], err |-> fr[t].env[2]],
                                                     !.pc = "ret"]]
  /\ UNCHANGED <<goos, gate, channel, ForkLock>>

pwrite_return(t) ==
  /\ At(t, "pwrite", "ret")
  /\ fr' = [fr EXCEPT ![t] = Return(fr[t], <<fr[t].loc.n, fr[t].loc.err>>)]
  /\ UNCHANGED <<goos, gate, channel, ForkLock>>

(* --------------------------------------------------------------- seek *)
Whences == {0, 1, 2}
SeekOutcomes == {<<r, Nil>> : r \in {0, MaxOff + 1}} \cup {<<0, EIO>>}

seek_syscallInfo(f, offset, whence, ret) ==
  GeneralSyscall(DSYS_LSEEK, 3, 2, <<GT_FILE(f.name), GT_INTEGER64(offset), GT_INTEGER(whence)>>,
                 <<GT_INTEGER64(ret), GT_ERROR>>)

seek_call(t) ==
  /\ CanCall(t)
  /\ \E f \in Files, offset \in Offs, whence \in Whences, out \in SeekOutcomes :
       fr' = [fr EXCEPT ![t] = Enter("seek", [f |-> f, offset |-> offset, whence |-> whence], out,
                                     [ret |-> 0, err |-> Nil], "real")]
  /\ UNCHANGED <<goos, gate, channel, ForkLock>>

seek_real(t) ==
  /\ At(t, "seek", "real")
  /\ fr' = [fr EXCEPT ![t] = [RealDone(fr[t]) EXCEPT !.loc = [ret |-> fr[t].env[1], err |-> fr[t].env[2]],
                                                     !.pc = "instr"]]
  /\ UNCHANGED <<goos, gate, channel, ForkLock>>

seek_instr(t) ==
  /\ At(t, "seek", "instr")
  /\ IF Is_dara_profiling_on
       THEN Report_Syscall_To_Scheduler(t, Dara_Debug_Print(fr[t], "[SEEK]"), DSYS_LSEEK,
              seek_syscallInfo(fr[t].args.f, fr[t].args.offset, fr[t].args.whence, fr[t].loc.ret), "ret")
       ELSE fr' = [fr EXCEPT ![t].pc = "ret"] /\ UNCHANGED channel
  /\ UNCHANGED <<goos, gate, ForkLock>>

seek_return(t) ==
  /\ At(t, "seek", "ret")
  /\ fr' = [fr EXCEPT ![t] = Return(fr[t], <<fr[t].loc.ret, fr[t].loc.err>>)]
  /\ UNCHANGED <<goos, gate, channel, ForkLock>>

(* --------------------------------------------------------------- Link *)
NewNames == {Name(2)}
LinkOutcomes == {Nil, EEXIST}

Link_syscallInfo(oldname, newname) ==
  GeneralSyscall(DSYS_LINK, 2, 1, <<GT_STRING(oldname), GT_STRING(newname)>>, <<GT_ERROR>>)

Link_call(t) ==
  /\ CanCall(t)
  /\ \E oldname \in Names, newname \in NewNames, e \in LinkOutcomes :
       fr' = [fr EXCEPT ![t] = Enter("Link", [oldname |-> oldname, newname |-> newname], e,
                                     [e |-> Nil], "real")]
  /\ UNCHANGED <<goos, gate, channel, ForkLock>>

Link_real(t) ==
  /\ At(t, "Link", "real")
  /\ fr' = [fr EXCEPT ![t] = [RealDone(fr[t]) EXCEPT !.loc = [e |-> fr[t].env], !.pc = "instr"]]
  /\ UNCHANGED <<goos, gate, channel, ForkLock>>

Link_instr(t) ==
  /\ At(t, "Link", "instr")
  /\ IF Is_dara_profiling_on
       THEN Report_Syscall_To_Scheduler(t, Dara_Debug_Print(fr[t], "[LINK]"), DSYS_LINK,
              Link_syscallInfo(fr[t].args.oldname, fr[t].args.newname), "ret")
       ELSE fr' = [fr EXCEPT ![t].pc = "ret"] /\ UNCHANGED channel
  /\ UNCHANGED <<goos, gate, ForkLock>>

Link_return(t) ==
  /\ At(t, "Link", "ret")
  /\ fr' = [fr EXCEPT ![t] =
              IF fr[t].loc.e # Nil
                THEN Return(fr[t], <<LinkError("link", fr[t].args.oldname, fr[t].args.newname, fr[t].loc.e)>>)
                ELSE Return(fr[t], <<Nil>>)]
  /\ UNCHANGED <<goos, gate, channel, ForkLock>>

(* --------------------------------------------------------------- Symlink *)
Symlink_syscallInfo(oldname, newname) ==
  GeneralSyscall(DSYS_SYMLINK, 2, 1, <<GT_STRING(oldname), GT_STRING(newname)>>, <<GT_ERROR>>)

Symlink_call(t) ==
  /\ CanCall(t)
  /\ \E oldname \in Names, newname \in NewNames, e \in LinkOutcomes :
       fr' = [fr EXCEPT ![t] = Enter("Symlink", [oldname |-> oldname, newname |-> newname], e,
                                     [e |-> Nil], "real")]
  /\ UNCHANGED <<goos, gate, channel, ForkLock>>

Symlink_real(t) ==
  /\ At(t, "Symlink", "real")
  /\ fr' = [fr EXCEPT ![t] = [RealDone(fr[t]) EXCEPT !.loc = [e |-> fr[t].env], !.pc = "instr"]]
  /\ UNCHANGED <<goos, gate, channel, ForkLock>>

(* Symlink reporting under Link's identity while its record says SYMLINK *)
Symlink_instr_linkid(t) ==
  /\ At(t, "Symlink", "instr")
  /\ IF Is_dara_profiling_on
       THEN Report_Syscall_To_Scheduler(t, Dara_Debug_Print(fr[t], "[LINK]"), DSYS_LINK,
              Symlink_syscallInfo(fr[t].args.oldname, fr[t].args.newname), "ret")
       ELSE fr' = [fr EXCEPT ![t].pc = "ret"] /\ UNCHANGED channel
  /\ UNCHANGED <<goos, gate, ForkLock>>

Symlink_instr(t) ==
  /\ At(t, "Symlink", "instr")
  /\ IF Is_dara_profiling_on
       THEN Report_Syscall_To_Scheduler(t, Dara_Debug_Print(fr[t], "[LINK]"), DSYS_SYMLINK,
              Symlink_syscallInfo(fr[t].args.oldname, fr[t].args.newname), "ret")
       ELSE fr' = [fr EXCEPT ![t].pc = "ret"] /\ UNCHANGED channel
  /\ UNCHANGED <<goos, gate, ForkLock>>

Symlink_return(t) ==
  /\ At(t, "Symlink", "ret")
  /\ fr' = [fr EXCEPT ![t] =
              IF fr[t].loc.e # Nil
                THEN Return(fr[t], <<LinkError("symlink", fr[t].args.oldname, fr[t].args.newname, fr[t].loc.e)>>)
                ELSE Return(fr[t], <<Nil>>)]
  /\ UNCHANGED <<goos, gate, channel, ForkLock>>

(* --------------------------------------------------------------- Truncate *)
TruncOutcomes == {Nil, EIO}

Truncate_syscallInfo(name, size) ==
  GeneralSyscall(DSYS_TRUNCATE, 2, 1, <<GT_STRING(name), GT_INTEGER64(size)>>, <<GT_ERROR>>)

Truncate_call(t) ==
  /\ CanCall(t)
  /\ \E name \in Names, size \in Offs, e \in TruncOutcomes :
       fr' = [fr EXCEPT ![t] = Enter("Truncate", [name |-> name, size |-> size], e,
                                     [e |-> Nil], "instr")]
  /\ UNCHANGED <<goos, gate, channel, ForkLock>>

(* Truncate handing its report over without waiting for the scheduler *)
Truncate_instr_async(t) ==
  /\ At(t, "Truncate", "instr")
  /\ IF Is_dara_profiling_on
       THEN /\ fr' = [fr EXCEPT ![t] =
                        [Dara_Debug_Print(fr[t], "[TRUNCATE]") EXCEPT
                           !.pc = "real",
                           !.sent = Append(@, [id |-> DSYS_TRUNCATE, hasInfo |-> TRUE,
                                               info |-> Truncate_syscallInfo(fr[t].args.name, fr[t].args.size)]),
                           !.ev = Append(@, "report")]]
            /\ channel' = Append(channel,
                                 [thread |-> t,
                                  msg |-> [id |-> DSYS_TRUNCATE, hasInfo |-> TRUE,
                                           info |-> Truncate_syscallInfo(fr[t].args.name, fr[t].args.size)]])
       ELSE fr' = [fr EXCEPT ![t].pc = "real"] /\ UNCHANGED channel
  /\ UNCHANGED <<goos, gate, ForkLock>>

Truncate_instr(t) ==
  /\ At(t, "Truncate", "instr")
  /\ IF Is_dara_profiling_on
       THEN Report_Syscall_To_Scheduler(t, Dara_Debug_Print(fr[t], "[TRUNCATE]"), DSYS_TRUNCATE,
              Truncate_syscallInfo(fr[t].args.name, fr[t].args.size), "real")
       ELSE fr' = [fr EXCEPT ![t].pc = "real"] /\ UNCHANGED channel
  /\ UNCHANGED <<goos, gate, ForkLock>>

Truncate_real(t) ==
  /\ At(t, "Truncate", "real")
  /\ fr' = [fr EXCEPT ![t] = [RealDone(fr[t]) EXCEPT !.loc = [e |-> fr[t].env], !.pc = "ret"]]
  /\ UNCHANGED <<goos, gate, channel, ForkLock>>

Truncate_return(t) ==
  /\ At(t, "Truncate", "ret")
  /\ fr' = [fr EXCEPT ![t] =
              IF fr[t].loc.e # Nil
                THEN Return(fr[t], <<PathError("truncate", fr[t].args.name, fr[t].loc.e)>>)
                ELSE Return(fr[t], <<Nil>>)]
  /\ UNCHANGED <<goos, gate, channel, ForkLock>>

(* ------------------------------------------------- stat / lstat / fstat *)
StatOutcomes == {Nil, Errno("ENOENT")}

(* fillFileStatFromSys(&fs, name): the FileInfo handed back *)
fileStat(name, isDir) == [name |-> name, isDir |-> isDir]
NilFileInfo == [name |-> <<>>, isDir |-> FALSE]

Stat_call(t) ==
  /\ CanCall(t)
  /\ \E f \in Files \cup {NilFile}, e \in StatOutcomes :
       fr' = [fr EXCEPT ![t] = Enter("Stat", [f |-> f], e, [err |-> Nil], "instr")]
  /\ UNCHANGED <<goos, gate, channel, ForkLock>>

(* print("[FSTAT] : "); println(f.file.name) dereferences f *)
Stat_instr(t) ==
  /\ At(t, "Stat", "instr")
  /\ fr' = [fr EXCEPT ![t] =
              IF Is_dara_profiling_on
                THEN IF fr[t].args.f.nil
                       THEN Panic(println(fr[t], "[FSTAT]"))
                       ELSE [println(fr[t], "[FSTAT]") EXCEPT !.pc = "real"]
                ELSE [fr[t] EXCEPT !.pc = "real"]]
  /\ UNCHANGED <<goos, gate, channel, ForkLock>>

Stat_real(t) ==
  /\ At(t, "Stat", "real")
  /\ fr' = [fr EXCEPT ![t] =
              IF fr[t].args.f.nil
                THEN Return(fr[t], <<NilFileInfo, ErrInvalid>>)
                ELSE [RealDone(fr[t]) EXCEPT !.loc = [err |-> fr[t].env], !.pc = "ret"]]
  /\ UNCHANGED <<goos, gate, channel, ForkLock>>

Stat_return(t) ==
  /\ At(t, "Stat", "ret")
  /\ fr' = [fr EXCEPT ![t] =
              IF fr[t].loc.err # Nil
                THEN Return(fr[t], <<NilFileInfo, PathError("stat", fr[t].args.f.name, fr[t].loc.err)>>)
                ELSE Return(fr[t], <<fileStat(fr[t].args.f.name, FALSE), Nil>>)]
  /\ UNCHANGED <<goos, gate, channel, ForkLock>>

statNolog_call(t) ==
  /\ CanCall(t)
  /\ \E name \in Names, e \in StatOutcomes :
       fr' = [fr EXCEPT ![t] = Enter("statNolog", [name |-> name], e, [err |-> Nil], "instr")]
  /\ UNCHANGED <<goos, gate, channel, ForkLock>>

statNolog_instr(t) ==
  /\ At(t, "statNolog", "instr")
  /\ fr' = [fr EXCEPT ![t] =
              IF Is_dara_profiling_on
                THEN [println(fr[t], "[STAT]") EXCEPT !.pc = "real"]
                ELSE [fr[t] EXCEPT !.pc = "real"]]
  /\ UNCHANGED <<goos, gate, channel, ForkLock>>

statNolog_real(t) ==
  /\ At(t, "statNolog", "real")
  /\ fr' = [fr EXCEPT ![t] = [RealDone(fr[t]) EXCEPT !.loc = [err |-> fr[t].env], !.pc = "ret"]]
  /\ UNCHANGED <<goos, gate, channel, ForkLock>>

statNolog_return(t) ==
  /\ At(t, "statNolog", "ret")
  /\ fr' = [fr EXCEPT ![t] =
              IF fr[t].loc.err # Nil
                THEN Return(fr[t], <<NilFileInfo, PathError("stat", fr[t].args.name, fr[t].loc.err)>>)
                ELSE Return(fr[t], <<fileStat(fr[t].args.name, FALSE), Nil>>)]
  /\ UNCHANGED <<goos, gate, channel, ForkLock>>

lstatNolog_call(t) ==
  /\ CanCall(t)
  /\ \E name \in Names, e \in StatOutcomes :
       fr' = [fr EXCEPT ![t] = Enter("lstatNolog", [name |-> name], e, [err |-> Nil], "instr")]
  /\ UNCHANGED <<goos, gate, channel, ForkLock>>

lstatNolog_instr(t) ==
  /\ At(t, "lstatNolog", "instr")
  /\ fr' = [fr EXCEPT ![t] =
              IF Is_dara_profiling_on
                THEN [println(fr[t], "[LSTAT]") EXCEPT !.pc = "real"]
                ELSE [fr[t] EXCEPT !.pc = "real"]]
  /\ UNCHANGED <<goos, gate, channel, ForkLock>>

lstatNolog_real(t) ==
  /\ At(t, "lstatNolog", "real")
  /\ fr' = [fr EXCEPT ![t] = [RealDone(fr[t]) EXCEPT !.loc = [err |-> fr[t].env], !.pc = "ret"]]
  /\ UNCHANGED <<goos, gate, channel, ForkLock>>

lstatNolog_return(t) ==
  /\ At(t, "lstatNolog", "ret")
  /\ fr' = [fr EXCEPT ![t] =
              IF fr[t].loc.err # Nil
                THEN Return(fr[t], <<NilFileInfo, PathError("lstat", fr[t].args.name, fr[t].loc.err)>>)
                ELSE Return(fr[t], <<fileStat(fr[t].args.name, FALSE), Nil>>)]
  /\ UNCHANGED <<goos, gate, channel, ForkLock>>

(* --------------------------------------------------------------- rename *)
(* Lstat(name) as called from inside another wrapper: lstatNolog's trace   *)
(* line when the gate is on, then the lstat syscall                        *)
Lstat(f) == Did(IF Is_dara_profiling_on THEN println(f, "[LSTAT]") ELSE f, "lstat")

RenameEnvs ==
  {[newLstat |-> "dir", oldErr |-> x, e |-> Nil] : x \in StatOutcomes}
    \cup {[newLstat |-> k, oldErr |-> Nil, e |-> y] : k \in {"file", "err"}, y \in {Nil, EIO}}

rename_syscallInfo(oldname, newname) ==
  GeneralSyscall(DSYS_RENAME, 2, 1, <<GT_STRING(oldname), GT_STRING(newname)>>, <<GT_ERROR>>)

rename_call(t) ==
  /\ CanCall(t)
  /\ \E oldname \in Names, newname \in NewNames, env \in RenameEnvs :
       fr' = [fr EXCEPT ![t] = Enter("rename", [oldname |-> oldname, newname |-> newname], env,
                                     [err |-> Nil], "lstat")]
  /\ UNCHANGED <<goos, gate, channel, ForkLock>>

(* rename without the test for newname being a directory *)
rename_lstat_nodircheck(t) ==
  /\ At(t, "rename", "lstat")
  /\ fr' = [fr EXCEPT ![t] = [Lstat(fr[t]) EXCEPT !.pc = "instr"]]
  /\ UNCHANGED <<goos, gate, channel, ForkLock>>

(* fi, err := Lstat(newname); if err == nil && fi.IsDir() *)
rename_lstat(t) ==
  /\ At(t, "rename", "lstat")
  /\ fr' = [fr EXCEPT ![t] =
              [Lstat(fr[t]) EXCEPT !.pc = IF fr[t].env.newLstat = "dir" THEN "lstat_old" ELSE "instr"]]
  /\ UNCHANGED <<goos, gate, channel, ForkLock>>

(* newname is a directory: report the oldname error first, else EEXIST *)
rename_lstat_old(t) ==
  /\ At(t, "rename", "lstat_old")
  /\ fr' = [fr EXCEPT ![t] =
              LET err == IF fr[t].env.oldErr # Nil
                           THEN PathError("lstat", fr[t].args.oldname, fr[t].env.oldErr)
                           ELSE Nil
                  pe == IF err.kind = "PathError" THEN err.Err ELSE err
              IN Return(Lstat(fr[t]),
                        <<LinkError("rename", fr[t].args.oldname, fr[t].args.newname,
                                    IF err # Nil THEN pe ELSE EEXIST)>>)]
  /\ UNCHANGED <<goos, gate, channel, ForkLock>>

rename_instr(t) ==
  /\ At(t, "rename", "instr")
  /\ IF Is_dara_profiling_on
       THEN Report_Syscall_To_Scheduler(t, Dara_Debug_Print(fr[t], "[RENAME]"), DSYS_RENAME,
              rename_syscallInfo(fr[t].args.oldname, fr[t].args.newname), "real")
       ELSE fr' = [fr EXCEPT ![t].pc = "real"] /\ UNCHANGED channel
  /\ UNCHANGED <<goos, gate, ForkLock>>

rename_real(t) ==
  /\ At(t, "rename", "real")
  /\ fr' = [fr EXCEPT ![t] = [RealDone(fr[t]) EXCEPT !.loc = [err |-> fr[t].env.e], !.pc = "ret"]]
  /\ UNCHANGED <<goos, gate, channel, ForkLock>>

rename_return(t) ==
  /\ At(t, "rename", "ret")
  /\ fr' = [fr EXCEPT ![t] =
              IF fr[t].loc.err # Nil
                THEN Return(fr[t], <<LinkError("rename", fr[t].args.oldname, fr[t].args.newname, fr[t].loc.err)>>)
                ELSE Return(fr[t], <<Nil>>)]
  /\ UNCHANGED <<goos, gate, channel, ForkLock>>

(* --------------------------------------------------------- openFileNolog *)
(* runtime.GOOS of the build: linux (pipe_linux.go) or darwin (the EINTR *)
(* retry of openFileNolog)                                            *)
GOOS == goos

(* flag: O_RDONLY, O_CREATE|O_WRONLY; perm 0644 (no ModeSticky bit, so the *)
(* chmod branch of openFileNolog stays off)                                *)
Flags == {0, 65}
Perms == {420}

(* what successive syscall.Open attempts give: <<r, e>> *)
(* up to MaxEintr interrupted attempts, then success or ENOENT            *)
OpenEnvs ==
  {[i \in 1..(k + 1) |-> IF i <= k THEN <<-1, EINTR>> ELSE last] :
     k \in 0..MaxEintr, last \in {<<3, Nil>>, <<-1, Errno("ENOENT")>>}}

(* the OPEN record with perm left out: two declared arguments *)
openFileNolog_syscallInfo_noperm(name, flag, perm) ==
  GeneralSyscall(DSYS_OPEN, 2, 2, <<GT_STRING(name), GT_INTEGER(flag)>>, <<GT_POINTER, GT_ERROR>>)

openFileNolog_syscallInfo(name, flag, perm) ==
  GeneralSyscall(DSYS_OPEN, 3, 2, <<GT_STRING(name), GT_INTEGER(flag), GT_INTEGER(perm)>>,
                 <<GT_POINTER, GT_ERROR>>)

openFileNolog_call(t) ==
  /\ CanCall(t)
  /\ \E name \in Names, flag \in Flags, perm \in Perms, env \in OpenEnvs :
       fr' = [fr EXCEPT ![t] = Enter("openFileNolog", [name |-> name, flag |-> flag, perm |-> perm], env,
                                     [chmod |-> FALSE, r |-> 0, try |-> 1], "instr")]
  /\ UNCHANGED <<goos, gate, channel, ForkLock>>

openFileNolog_instr(t) ==
  /\ At(t, "openFileNolog", "instr")
  /\ IF Is_dara_profiling_on
       THEN Report_Syscall_To_Scheduler(t, Dara_Debug_Print(fr[t], "[OPEN]"), DSYS_OPEN,
              openFileNolog_syscallInfo(fr[t].args.name, fr[t].args.flag, fr[t].args.perm), "real")
       ELSE fr' = [fr EXCEPT ![t].pc = "real"] /\ UNCHANGED channel
  /\ UNCHANGED <<goos, gate, ForkLock>>

(* the DARA block moved inside the for loop: a retry reports again *)
openFileNolog_real_rereport(t) ==
  /\ At(t, "openFileNolog", "real")
  /\ LET r == fr[t].env[fr[t].loc.try][1]
         e == fr[t].env[fr[t].loc.try][2]
         f == RealDone(fr[t])
     IN fr' = [fr EXCEPT ![t] =
                 IF e = Nil
                   THEN [f EXCEPT !.loc.r = r, !.pc = "ret"]
                   ELSE IF GOOS = "darwin" /\ e = EINTR
                          THEN [f EXCEPT !.loc.try = @ + 1, !.pc = "instr"]
                          ELSE Return(f, <<NilFile, PathError("open", fr[t].args.name, e)>>)]
  /\ UNCHANGED <<goos, gate, channel, ForkLock>>

(* one turn of the for loop around syscall.Open *)
openFileNolog_real(t) ==
  /\ At(t, "openFileNolog", "real")
  /\ LET r == fr[t].env[fr[t].loc.try][1]
         e == fr[t].env[fr[t].loc.try][2]
         f == RealDone(fr[t])
     IN fr' = [fr EXCEPT ![t] =
                 IF e = Nil
                   THEN [f EXCEPT !.loc.r = r, !.pc = "ret"]
                   ELSE IF GOOS = "darwin" /\ e = EINTR
                          THEN [f EXCEPT !.loc.try = @ + 1]
                          ELSE Return(f, <<NilFile, PathError("open", fr[t].args.name, e)>>)]
  /\ UNCHANGED <<goos, gate, channel, ForkLock>>

openFileNolog_return(t) ==
  /\ At(t, "openFileNolog", "ret")
  /\ fr' = [fr EXCEPT ![t] = Return(fr[t], <<newFile(fr[t].loc.r, fr[t].args.name), Nil>>)]
  /\ UNCHANGED <<goos, gate, channel, ForkLock>>

(* --------------------------------------------------------------- close *)
CloseOutcomes == {Nil, ErrFileClosing, EIO}

close_syscallInfo(file) ==
  GeneralSyscall(DSYS_CLOSE, 1, 1, <<GT_FILE(file.name)>>, <<GT_ERROR>>)

close_call(t) ==
  /\ CanCall(t)
  /\ \E file \in Files \cup {NilFile}, e \in CloseOutcomes :
       fr' = [fr EXCEPT ![t] = Enter("close", [file |-> file], e, [err |-> Nil], "instr")]
  /\ UNCHANGED <<goos, gate, channel, ForkLock>>

close_instr(t) ==
  /\ At(t, "close", "instr")
  /\ IF fr[t].args.file.nil
       THEN fr' = [fr EXCEPT ![t] = Return(fr[t], <<EINVAL>>)] /\ UNCHANGED channel
       ELSE IF Is_dara_profiling_on
              THEN Report_Syscall_To_Scheduler(t, Dara_Debug_Print(fr[t], "[CLOSE]"), DSYS_CLOSE,
                     close_syscallInfo(fr[t].args.file), "real")
              ELSE fr' = [fr EXCEPT ![t].pc = "real"] /\ UNCHANGED channel
  /\ UNCHANGED <<goos, gate, ForkLock>>

close_real(t) ==
  /\ At(t, "close", "real")
  /\ LET e == fr[t].env IN
       fr' = [fr EXCEPT ![t] =
                [RealDone(fr[t]) EXCEPT
                   !.loc = [err |-> IF e # Nil
                                      THEN PathError("close", fr[t].args.file.name,
                                                     IF e = ErrFileClosing THEN ErrClosed ELSE e)
                                      ELSE Nil],
                   !.pc = "ret"]]
  /\ UNCHANGED <<goos, gate, channel, ForkLock>>

close_return(t) ==
  /\ At(t, "close", "ret")
  /\ fr' = [fr EXCEPT ![t] = Return(fr[t], <<fr[t].loc.err>>)]
  /\ UNCHANGED <<goos, gate, channel, ForkLock>>

(* --------------------------------------------------------------- Pipe *)
EMFILE == Errno("EMFILE")
PipeName0 == <<"|", "0">>
PipeName1 == <<"|", "1">>

PipeEnvs == {[pipe2 |-> Nil, pipe |-> Nil], [pipe2 |-> ENOSYS, pipe |-> Nil],
             [pipe2 |-> ENOSYS, pipe |-> EMFILE], [pipe2 |-> EMFILE, pipe |-> Nil]}

Pipe_syscallInfo(r, w) ==
  GeneralSyscall(DSYS_PIPE2, 0, 3, <<>>, <<GT_FILE(r.name), GT_FILE(w.name), GT_ERROR>>)

Pipe_call(t) ==
  /\ CanCall(t)
  /\ GOOS = "linux"
  /\ \E env \in PipeEnvs :
       fr' = [fr EXCEPT ![t] = Enter("Pipe", <<>>, env,
                                     [r |-> NilFile, w |-> NilFile, p |-> <<0, 0>>], "instr")]
  /\ UNCHANGED <<goos, gate, channel, ForkLock>>

(* r.name and w.name are read from the named results before anything is    *)
(* assigned to them: r and w are nil here, and reading .name of a nil      *)
(* *File is a nil pointer dereference                                      *)
Pipe_instr(t) ==
  /\ At(t, "Pipe", "instr")
  /\ IF Is_dara_profiling_on
       THEN IF fr[t].loc.r.nil \/ fr[t].loc.w.nil
              THEN fr' = [fr EXCEPT ![t] = Panic(Dara_Debug_Print(fr[t], "[PIPE]"))] /\ UNCHANGED channel
              ELSE Report_Syscall_To_Scheduler(t, Dara_Debug_Print(fr[t], "[PIPE]"), DSYS_PIPE2,
                     Pipe_syscallInfo(fr[t].loc.r, fr[t].loc.w), "real")
       ELSE fr' = [fr EXCEPT ![t].pc = "real"] /\ UNCHANGED channel
  /\ UNCHANGED <<goos, gate, ForkLock>>

(* e := syscall.Pipe2(p[0:], syscall.O_CLOEXEC) *)
Pipe_real(t) ==
  /\ At(t, "Pipe", "real")
  /\ LET e == fr[t].env.pipe2 IN
       fr' = [fr EXCEPT ![t] =
                IF e = ENOSYS
                  THEN [fr[t] EXCEPT !.pc = "rlock"]
                  ELSE IF e # Nil
                         THEN Return(RealDone(fr[t]), <<NilFile, NilFile, NewSyscallError("pipe2", e)>>)
                         ELSE [RealDone(fr[t]) EXCEPT !.loc.p = <<3, 4>>, !.pc = "ret"]]
  /\ UNCHANGED <<goos, gate, channel, ForkLock>>

(* syscall.ForkLock.RLock() *)
Pipe_rlock(t) ==
  /\ At(t, "Pipe", "rlock")
  /\ ForkLock' = ForkLock + 1
  /\ fr' = [fr EXCEPT ![t] = [Did(fr[t], "rlock") EXCEPT !.pc = "pipe"]]
  /\ UNCHANGED <<goos, gate, channel>>

(* the failure path returning without syscall.ForkLock.RUnlock() *)
Pipe_pipe_leak(t) ==
  /\ At(t, "Pipe", "pipe")
  /\ LET e == fr[t].env.pipe IN
       IF e # Nil
         THEN fr' = [fr EXCEPT ![t] =
                       Return(RealDone(fr[t]), <<NilFile, NilFile, NewSyscallError("pipe", e)>>)]
         ELSE fr' = [fr EXCEPT ![t] = [RealDone(fr[t]) EXCEPT !.loc.p = <<3, 4>>, !.pc = "cloexec"]]
  /\ UNCHANGED <<goos, gate, channel, ForkLock>>

(* e = syscall.Pipe(p[0:]) under the ForkLock read lock *)
Pipe_pipe(t) ==
  /\ At(t, "Pipe", "pipe")
  /\ LET e == fr[t].env.pipe IN
       IF e # Nil
         THEN /\ ForkLock' = ForkLock - 1
              /\ fr' = [fr EXCEPT ![t] =
                          Return(Did(RealDone(fr[t]), "runlock"),
                                 <<NilFile, NilFile, NewSyscallError("pipe", e)>>)]
         ELSE /\ fr' = [fr EXCEPT ![t] = [RealDone(fr[t]) EXCEPT !.loc.p = <<3, 4>>, !.pc = "cloexec"]]
              /\ UNCHANGED ForkLock
  /\ UNCHANGED <<goos, gate, channel>>

(* syscall.CloseOnExec(p[0]); syscall.CloseOnExec(p[1]) *)
Pipe_cloexec(t) ==
  /\ At(t, "Pipe", "cloexec")
  /\ fr' = [fr EXCEPT ![t] = [Did(Did(fr[t], "cloexec"), "cloexec") EXCEPT !.pc = "runlock"]]
  /\ UNCHANGED <<goos, gate, channel, ForkLock>>

(* syscall.ForkLock.RUnlock() *)
Pipe_runlock(t) ==
  /\ At(t, "Pipe", "runlock")
  /\ ForkLock' = ForkLock - 1
  /\ fr' = [fr EXCEPT ![t] = [Did(fr[t], "runlock") EXCEPT !.pc = "ret"]]
  /\ UNCHANGED <<goos, gate, channel>>

Pipe_return(t) ==
  /\ At(t, "Pipe", "ret")
  /\ fr' = [fr EXCEPT ![t] =
              Return(fr[t], <<newFile(fr[t].loc.p[1], PipeName0), newFile(fr[t].loc.p[2], PipeName1), Nil>>)]
  /\ UNCHANGED <<goos, gate, channel, ForkLock>>

(* --------------------------------------------------------------- Remove *)
RemoveEnvs == {[unlink |-> Nil, rmdir |-> Nil], [unlink |-> Errno("EISDIR"), rmdir |-> Nil],
               [unlink |-> Errno("ENOENT"), rmdir |-> ENOTDIR],
               [unlink |-> Errno("EISDIR"), rmdir |-> Errno("ENOTEMPTY")]}

Remove_call(t) ==
  /\ CanCall(t)
  /\ \E name \in Names, env \in RemoveEnvs :
       fr' = [fr EXCEPT ![t] = Enter("Remove", [name |-> name], env, [e |-> Nil], "unlink")]
  /\ UNCHANGED <<goos, gate, channel, ForkLock>>

Remove_unlink(t) ==
  /\ At(t, "Remove", "unlink")
  /\ LET e == fr[t].env.unlink IN
       fr' = [fr EXCEPT ![t] =
                IF e = Nil
                  THEN Return(Did(fr[t], "unlink"), <<Nil>>)
                  ELSE [Did(fr[t], "unlink") EXCEPT !.loc = [e |-> e], !.pc = "rmdir"]]
  /\ UNCHANGED <<goos, gate, channel, ForkLock>>

Remove_rmdir(t) ==
  /\ At(t, "Remove", "rmdir")
  /\ LET e1 == fr[t].env.rmdir
         e == IF e1 # ENOTDIR THEN e1 ELSE fr[t].loc.e
     IN fr' = [fr EXCEPT ![t] =
                 IF e1 = Nil
                   THEN Return(Did(fr[t], "rmdir"), <<Nil>>)
                   ELSE Return(Did(fr[t], "rmdir"), <<PathError("remove", fr[t].args.name, e)>>)]
  /\ UNCHANGED <<goos, gate, channel, ForkLock>>

(* ----------------------------------------------------------- Executable *)
ExecOutcomes == {<<Name(1), Nil>>, <<<<>>, Errno("ENOENT")>>}

Executable_call(t) ==
  /\ CanCall(t)
  /\ \E out \in ExecOutcomes :
       fr' = [fr EXCEPT ![t] = Enter("Executable", <<>>, out, <<>>, "instr")]
  /\ UNCHANGED <<goos, gate, channel, ForkLock>>

Executable_instr(t) ==
  /\ At(t, "Executable", "instr")
  /\ IF Is_dara_profiling_on
       THEN syscall_Report_Syscall_To_Scheduler(t, println(fr[t], "[EXECUTABLE]"), DSYS_EXECUTABLE, "real")
       ELSE fr' = [fr EXCEPT ![t].pc = "real"] /\ UNCHANGED channel
  /\ UNCHANGED <<goos, gate, ForkLock>>

(* return executable() *)
Executable_real(t) ==
  /\ At(t, "Executable", "real")
  /\ fr' = [fr EXCEPT ![t] = Return(RealDone(fr[t]), <<fr[t].env[1], fr[t].env[2]>>)]
  /\ UNCHANGED <<goos, gate, channel, ForkLock>>

(* ------------------------------------------- the wrappers without DARA *)
(* What each wrapper hands back when its instrumentation block is skipped, *)
(* as a function of the arguments and of what the operating system does.   *)
UninstrumentedFile(op, args, env) ==
  CASE op \in {"read", "pread", "write", "pwrite", "seek"} -> <<env[1], env[2]>>
    [] op = "Link" ->
         IF env # Nil THEN <<LinkError("link", args.oldname, args.newname, env)>> ELSE <<Nil>>
    [] op = "Symlink" ->
         IF env # Nil THEN <<LinkError("symlink", args.oldname, args.newname, env)>> ELSE <<Nil>>
    [] op = "Truncate" ->
         IF env # Nil THEN <<PathError("truncate", args.name, env)>> ELSE <<Nil>>
    [] op = "Stat" ->
         IF args.f.nil THEN <<NilFileInfo, ErrInvalid>>
         ELSE IF env # Nil THEN <<NilFileInfo, PathError("stat", args.f.name, env)>>
         ELSE <<fileStat(args.f.name, FALSE), Nil>>
    [] op = "statNolog" ->
         IF env # Nil THEN <<NilFileInfo, PathError("stat", args.name, env)>>
         ELSE <<fileStat(args.name, FALSE), Nil>>
    [] op = "lstatNolog" ->
         IF env # Nil THEN <<NilFileInfo, PathError("lstat", args.name, env)>>
         ELSE <<fileStat(args.name, FALSE), Nil>>
    [] op = "rename" ->
         IF env.newLstat = "dir"
           THEN <<LinkError("rename", args.oldname, args.newname,
                            IF env.oldErr # Nil THEN env.oldErr ELSE EEXIST)>>
           ELSE IF env.e # Nil THEN <<LinkError("rename", args.oldname, args.newname, env.e)>>
           ELSE <<Nil>>
    [] op = "openFileNolog" ->
         LET k == IF GOOS = "darwin"
                    THEN CHOOSE i \in 1..Len(env) :
                           /\ env[i][2] # EINTR
                           /\ \A j \in 1..(i - 1) : env[j][2] = EINTR
                    ELSE 1
         IN IF env[k][2] = Nil THEN <<newFile(env[k][1], args.name), Nil>>
            ELSE <<NilFile, PathError("open", args.name, env[k][2])>>
    [] op = "close" ->
         IF args.file.nil THEN <<EINVAL>>
         ELSE IF env = Nil THEN <<Nil>>
         ELSE <<PathError("close", args.file.name, IF env = ErrFileClosing THEN ErrClosed ELSE env)>>
    [] op = "Remove" ->
         IF env.unlink = Nil \/ env.rmdir = Nil THEN <<Nil>>
         ELSE <<PathError("remove", args.name, IF env.rmdir # ENOTDIR THEN env.rmdir ELSE env.unlink)>>

UninstrumentedPipe(env) ==
  IF env.pipe2 = ENOSYS
    THEN IF env.pipe # Nil
           THEN <<NilFile, NilFile, NewSyscallError("pipe", env.pipe)>>
           ELSE <<newFile(3, PipeName0), newFile(4, PipeName1), Nil>>
    ELSE IF env.pipe2 # Nil
           THEN <<NilFile, NilFile, NewSyscallError("pipe2", env.pipe2)>>
           ELSE <<newFile(3, PipeName0), newFile(4, PipeName1), Nil>>

UninstrumentedExecutable(env) == <<env[1], env[2]>>

Uninstrumented(f) ==
  Returned(CASE f.op = "Pipe" -> UninstrumentedPipe(f.env)
             [] f.op = "Executable" -> UninstrumentedExecutable(f.env)
             [] OTHER -> UninstrumentedFile(f.op, f.args, f.env))

(* ------------------------------------------------------------------ spec *)
Init ==
  /\ goos \in {"linux", "darwin"}
  /\ gate \in BOOLEAN
  /\ fr = [t \in Threads |-> IdleFrame]
  /\ channel = <<>>
  /\ ForkLock = 0

Next ==
  \/ \E t \in Threads : read_call(t)
  \/ \E t \in Threads : read_real(t)
  \/ \E t \in Threads : read_instr(t)
  \/ \E t \in Threads : read_return(t)
  \/ \E t \in Threads : pread_call(t)
  \/ \E t \in Threads : pread_real(t)
  \/ \E t \in Threads : pread_instr(t)
  \/ \E t \in Threads : pread_return(t)
  \/ \E t \in Threads : write_call(t)
  \/ \E t \in Threads : write_real(t)
  \/ \E t \in Threads : write_instr(t)
  \/ \E t \in Threads : write_return(t)
  \/ \E t \in Threads : pwrite_call(t)
  \/ \E t \in Threads : pwrite_instr(t)
  \/ \E t \in Threads : pwrite_real(t)
  \/ \E t \in Threads : pwrite_return(t)
  \/ \E t \in Threads : seek_call(t)
  \/ \E t \in Threads : seek_real(t)
  \/ \E t \in Threads : seek_instr(t)
  \/ \E t \in Threads : seek_return(t)
  \/ \E t \in Threads : Link_call(t)
  \/ \E t \in Threads : Link_real(t)
  \/ \E t \in Threads : Link_instr(t)
  \/ \E t \in Threads : Link_return(t)
  \/ \E t \in Threads : Symlink_call(t)
  \/ \E t \in Threads : Symlink_real(t)
  \/ \E t \in Threads : Symlink_instr(t)
  \/ \E t \in Threads : Symlink_return(t)
  \/ \E t \in Threads : Truncate_call(t)
  \/ \E t \in Threads : Truncate_instr(t)
  \/ \E t \in Threads : Truncate_real(t)
  \/ \E t \in Threads : Truncate_return(t)
  \/ \E t \in Threads : Stat_call(t)
  \/ \E t \in Threads : Stat_instr(t)
  \/ \E t \in Threads : Stat_real(t)
  \/ \E t \in Threads : Stat_return(t)
  \/ \E t \in Threads : statNolog_call(t)
  \/ \E t \in Threads : statNolog_instr(t)
  \/ \E t \in Threads : statNolog_real(t)
  \/ \E t \in Threads : statNolog_return(t)
  \/ \E t \in Threads : lstatNolog_call(t)
  \/ \E t \in Threads : lstatNolog_instr(t)
  \/ \E t \in Threads : lstatNolog_real(t)
  \/ \E t \in Threads : lstatNolog_return(t)
  \/ \E t \in Threads : rename_call(t)
  \/ \E t \in Threads : rename_lstat(t)
  \/ \E t \in Threads : rename_lstat_old(t)
  \/ \E t \in Threads : rename_instr(t)
  \/ \E t \in Threads : rename_real(t)
  \/ \E t \in Threads : rename_return(t)
  \/ \E t \in Threads : openFileNolog_call(t)
  \/ \E t \in Threads : openFileNolog_instr(t)
  \/ \E t \in Threads : openFileNolog_real(t)
  \/ \E t \in Threads : openFileNolog_return(t)
  \/ \E t \in Threads : close_call(t)
  \/ \E t \in Threads : close_instr(t)
  \/ \E t \in Threads : close_real(t)
  \/ \E t \in Threads : close_return(t)
  \/ \E t \in Threads : Pipe_call(t)
  \/ \E t \in Threads : Pipe_instr(t)
  \/ \E t \in Threads : Pipe_real(t)
  \/ \E t \in Threads : Pipe_rlock(t)
  \/ \E t \in Threads : Pipe_pipe(t)
  \/ \E t \in Threads : Pipe_cloexec(t)
  \/ \E t \in Threads : Pipe_runlock(t)
  \/ \E t \in Threads : Pipe_return(t)
  \/ \E t \in Threads : Remove_call(t)
  \/ \E t \in Threads : Remove_unlink(t)
  \/ \E t \in Threads : Remove_rmdir(t)
  \/ \E t \in Threads : Executable_call(t)
  \/ \E t \in Threads : Executable_instr(t)
  \/ \E t \in Threads : Executable_real(t)
  \/ \E i \in 1..Cardinality(Threads) : SchedulerRelease(i)

Spec == Init /\ [][Next]_vars

(* ------------------------------------------ the Value Encoder on its own *)
(* String/FileHandle encoding applied twice to a source drawn at the start *)
Letters == {"a", "b", "c"}
Sources == UNION {[1..n -> Letters] : n \in 0..(StringCap + 2)}

encode(kind, src) == IF kind = "STRING" THEN GT_STRING(src) ELSE GT_FILE(src)

InitEncode ==
  /\ goos = "linux"
  /\ gate = FALSE
  /\ channel = <<>>
  /\ ForkLock = 0
  /\ \E src \in Sources, kind \in {"STRING", "FILE"} :
       fr = [t \in Threads |->
               Enter("encode", [src |-> src, kind |-> kind], <<>>,
                     [first |-> GeneralType, second |-> GeneralType], "first")]

encode_first(t) ==
  /\ At(t, "encode", "first")
  /\ fr' = [fr EXCEPT ![t].loc.first = encode(fr[t].args.kind, fr[t].args.src), ![t].pc = "second"]
  /\ UNCHANGED <<goos, gate, channel, ForkLock>>

encode_second(t) ==
  /\ At(t, "encode", "second")
  /\ fr' = [fr EXCEPT ![t].loc.second = encode(fr[t].args.kind, fr[t].args.src), ![t].pc = "done"]
  /\ UNCHANGED <<goos, gate, channel, ForkLock>>

NextEncode ==
  \/ \E t \in Threads : encode_first(t)
  \/ \E t \in Threads : encode_second(t)

SpecEncode == InitEncode /\ [][NextEncode]_vars

(* ------------------------------------------------ concurrent goroutines *)
(* two goroutines inside read, pwrite, Truncate and Symlink at once, with   *)
(* the gate on; the scheduler lets held reports go in any order             *)
ConcThreads == {"t1", "t2"}

InitConc ==
  /\ goos = "linux"
  /\ gate = TRUE
  /\ fr = [t \in ConcThreads |-> IdleFrame]
  /\ channel = <<>>
  /\ ForkLock = 0

NextConc ==
  \/ \E t \in ConcThreads : read_call(t)
  \/ \E t \in ConcThreads : read_real(t)
  \/ \E t \in ConcThreads : read_instr(t)
  \/ \E t \in ConcThreads : read_return(t)
  \/ \E t \in ConcThreads : pwrite_call(t)
  \/ \E t \in ConcThreads : pwrite_instr(t)
  \/ \E t \in ConcThreads : pwrite_real(t)
  \/ \E t \in ConcThreads : pwrite_return(t)
  \/ \E t \in ConcThreads : Truncate_call(t)
  \/ \E t \in ConcThreads : Truncate_instr(t)
  \/ \E t \in ConcThreads : Truncate_real(t)
  \/ \E t \in ConcThreads : Truncate_return(t)
  \/ \E t \in ConcThreads : Symlink_call(t)
  \/ \E t \in ConcThreads : Symlink_real(t)
  \/ \E t \in ConcThreads : Symlink_instr(t)
  \/ \E t \in ConcThreads : Symlink_return(t)
  \/ \E i \in 1..Cardinality(ConcThreads) : SchedulerRelease(i)

SpecConc == InitConc /\ [][NextConc]_vars

(* ------------------------------------------------------------ vocabulary *)
InterpositionPoints == {"openFileNolog", "close", "read", "pread", "write", "pwrite", "seek",
                        "Truncate", "rename", "Link", "Symlink", "Pipe",
                        "Stat", "statNolog", "lstatNolog", "Executable"}

Done(t) == fr[t].pc = "done"

(* the wrapper's own real operation ran to completion in this invocation *)
PerformedReal(f) == \E i \in 1..Len(f.ev) : f.ev[i] = "real"

(* the Event Records this invocation delivered (a bare identity is none) *)
EventRecords(f) == SelectSeq(f.sent, LAMBDA m : m.hasInfo)

Count(seq, x) == Cardinality({i \in 1..Len(seq) : seq[i] = x})


(* ----------------------------------------------------------------- claims *)

(* C1: with the profiling gate inactive an invocation of any interposition *)
(* point delivers no report, emits no trace line, and hands its caller     *)
(* exactly what the uninstrumented operation produces.                     *)
C1_GateInactiveSilent ==
  ~gate =>
    /\ channel = <<>>
    /\ \A t \in Threads :
         /\ fr[t].sent = <<>>
         /\ fr[t].trace = <<>>
         /\ (Done(t) /\ fr[t].op \in InterpositionPoints) => fr[t].ret = Uninstrumented(fr[t])

C1_Witness ==
  /\ ~gate
  /\ \E t \in Threads : /\ Done(t)
                        /\ fr[t].op = "Pipe"
                        /\ PerformedReal(fr[t])
                        /\ fr[t].ret.kind = "return"
                        /\ fr[t].ret.vals[3] = Nil

(* C2: with the gate active, every completed invocation of an              *)
(* interposition point that performed its real operation delivered         *)
(* exactly one Event Record to the Reporting Channel.                      *)
C2_ExactlyOneRecord ==
  gate =>
    \A t \in Threads :
      (Done(t) /\ fr[t].op \in InterpositionPoints /\ PerformedReal(fr[t]))
        => Len(EventRecords(fr[t])) = 1

(* C3: with the gate active, a report is emitted only after the real       *)
(* operation of the same invocation has completed.                         *)
C3_ReportAfterReal ==
  gate =>
    \A t \in Threads :
      \A i \in 1..Len(fr[t].ev) :
        fr[t].ev[i] = "report" => \E j \in 1..(i - 1) : fr[t].ev[j] = "real"

(* C4: for read, pread, write, pwrite and seek with the gate active, the   *)
(* first result slot of the reported record equals the value the real      *)
(* operation returned to the caller in the same invocation.                *)
C4_ResultSlotIsReturned ==
  gate =>
    \A t \in Threads :
      (Done(t) /\ fr[t].ret.kind = "return" /\ Len(fr[t].sent) = 1) =>
        /\ fr[t].op \in {"read", "pread", "write", "pwrite"}
             => fr[t].sent[1].info.Rets[1].Integer = fr[t].ret.vals[1]
        /\ fr[t].op = "seek"
             => fr[t].sent[1].info.Rets[1].Integer64 = fr[t].ret.vals[1]

(* C5: when Pipe runs with the gate active and the pipe creation succeeds, *)
(* its report's two FileHandle result slots hold the names "|0" and "|1"   *)
(* of the files Pipe returns.                                              *)
C5_PipeReportsCreatedNames ==
  gate =>
    \A t \in Threads :
      (Done(t) /\ fr[t].op = "Pipe" /\ fr[t].env.pipe2 = Nil) =>
        /\ Len(fr[t].sent) = 1
        /\ fr[t].sent[1].info.Rets[1].Type = "FILE"
        /\ fr[t].sent[1].info.Rets[1].String = copy(ZeroString, PipeName0)
        /\ fr[t].sent[1].info.Rets[2].Type = "FILE"
        /\ fr[t].sent[1].info.Rets[2].String = copy(ZeroString, PipeName1)

(* C6: instrumentation is transparent: whatever the gate, the outcome the  *)
(* caller observes is the outcome of the uninstrumented operation under    *)
(* the same behaviour of the operating system.                             *)
C6_Transparent ==
  \A t \in Threads :
    (Done(t) /\ fr[t].op \in InterpositionPoints) => fr[t].ret = Uninstrumented(fr[t])

(* C7: with the gate active openFileNolog(name, flag, perm) delivers one   *)
(* report of identity DSYS_OPEN declaring 3 arguments (String name,        *)
(* Integer flag, Integer perm) and 2 results (Pointer placeholder, Error   *)
(* slot), and still returns a valid handle when the open succeeds.         *)
C7_OpenReport ==
  gate =>
    \A t \in Threads :
      (fr[t].op = "openFileNolog" /\ fr[t].pc # "instr") =>
        /\ Len(fr[t].sent) = 1
        /\ LET m == fr[t].sent[1] IN
             /\ m.id = DSYS_OPEN
             /\ m.hasInfo
             /\ m.info.SyscallNum = DSYS_OPEN
             /\ m.info.NumArgs = 3
             /\ m.info.NumRets = 2
             /\ m.info.Args[1].Type = "STRING"
             /\ \A i \in 1..StringCap :
                  m.info.Args[1].String[i] =
                    IF i <= Len(fr[t].args.name) THEN fr[t].args.name[i] ELSE NUL
             /\ m.info.Args[2].Type = "INTEGER"
             /\ m.info.Args[2].Integer = fr[t].args.flag
             /\ m.info.Args[3].Type = "INTEGER"
             /\ m.info.Args[3].Integer = fr[t].args.perm
             /\ m.info.Rets[1].Type = "POINTER"
             /\ m.info.Rets[1].Unsupported = UNSUPPORTEDVAL
             /\ m.info.Rets[2].Type = "ERROR"
        /\ (Done(t) /\ fr[t].env[fr[t].loc.try][2] = Nil) =>
             /\ fr[t].ret.kind = "return"
             /\ ~fr[t].ret.vals[1].nil
             /\ fr[t].ret.vals[1].name = fr[t].args.name
             /\ fr[t].ret.vals[2] = Nil

C7_Witness ==
  /\ gate
  /\ \E t \in Threads : /\ Done(t)
                        /\ fr[t].op = "openFileNolog"
                        /\ fr[t].args.flag = 65
                        /\ fr[t].args.perm = 420
                        /\ Len(fr[t].sent) = 1
                        /\ fr[t].ret.vals[2] = Nil

(* C8: with the gate active, one invocation of File.Stat, statNolog or     *)
(* lstatNolog delivers one Event Record of identity DSYS_FSTAT, DSYS_STAT  *)
(* or DSYS_LSTAT respectively.                                             *)
C8_StatFamilyReports ==
  gate =>
    \A t \in Threads :
      (Done(t) /\ fr[t].op \in {"Stat", "statNolog", "lstatNolog"} /\ PerformedReal(fr[t])) =>
        /\ Len(EventRecords(fr[t])) = 1
        /\ EventRecords(fr[t])[1].id =
             (CASE fr[t].op = "Stat" -> DSYS_FSTAT
                [] fr[t].op = "statNolog" -> DSYS_STAT
                [] fr[t].op = "lstatNolog" -> DSYS_LSTAT)

(* C9: with the gate active, every Unlink and every Rmdir that Remove      *)
(* makes is accompanied by a report of identity DSYS_UNLINK or DSYS_RMDIR. *)
C9_RemoveObserved ==
  gate =>
    \A t \in Threads :
      fr[t].op = "Remove" =>
        /\ Count(fr[t].ev, "unlink") = Cardinality({i \in 1..Len(fr[t].sent) : fr[t].sent[i].id = DSYS_UNLINK})
        /\ Count(fr[t].ev, "rmdir") = Cardinality({i \in 1..Len(fr[t].sent) : fr[t].sent[i].id = DSYS_RMDIR})

(* C10: with the gate active, Executable's report carries the identity     *)
(* DSYS_EXECUTABLE together with an Event Record (argument count, result   *)
(* count, result slots for path and error), not the identity alone.        *)
C10_ExecutableRecord ==
  gate =>
    \A t \in Threads :
      (Done(t) /\ fr[t].op = "Executable") =>
        /\ Len(fr[t].sent) = 1
        /\ fr[t].sent[1].id = DSYS_EXECUTABLE
        /\ fr[t].sent[1].hasInfo
        /\ fr[t].sent[1].info.SyscallNum = DSYS_EXECUTABLE
        /\ fr[t].sent[1].info.NumRets = 2

(* the kind tags an Encoded Value can carry *)
KindTags == {"INTEGER", "INTEGER64", "STRING", "ARRAY", "FILE", "POINTER", "ERROR"}

(* exactly the first n of the slots are populated, the others are zero *)
FirstPopulated(slots, n) ==
  /\ Len(slots) = SlotCap
  /\ \A k \in 1..SlotCap :
       /\ k <= n => slots[k].Type \in KindTags
       /\ k > n => slots[k] = GeneralType

(* C11: in every delivered Event Record the declared argument and result   *)
(* counts are at most 10, exactly the first NumArgs argument slots and the *)
(* first NumRets result slots carry a kind tag, and all other slots are    *)
(* zero.                                                                   *)
C11_CountsMatchSlots ==
  \A t \in Threads :
    \A i \in 1..Len(fr[t].sent) :
      fr[t].sent[i].hasInfo =>
        LET r == fr[t].sent[i].info IN
          /\ r.NumArgs \in 0..SlotCap
          /\ r.NumRets \in 0..SlotCap
          /\ FirstPopulated(r.Args, r.NumArgs)
          /\ FirstPopulated(r.Rets, r.NumRets)

C11_Witness ==
  \E t \in Threads : /\ fr[t].op = "pread"
                     /\ Len(fr[t].sent) = 1
                     /\ fr[t].sent[1].info.NumArgs = 3
                     /\ fr[t].sent[1].info.Args[3].Type = "INTEGER64"
                     /\ fr[t].sent[1].info.Args[4] = GeneralType

(* the catalog constant each wrapper reports under *)
CatalogOf(op) ==
  CASE op = "read" -> DSYS_READ
    [] op = "write" -> DSYS_WRITE
    [] op = "pread" -> DSYS_PREAD64
    [] op = "pwrite" -> DSYS_PWRITE64
    [] op = "seek" -> DSYS_LSEEK
    [] op = "openFileNolog" -> DSYS_OPEN
    [] op = "close" -> DSYS_CLOSE
    [] op = "rename" -> DSYS_RENAME
    [] op = "Truncate" -> DSYS_TRUNCATE
    [] op = "Link" -> DSYS_LINK
    [] op = "Symlink" -> DSYS_SYMLINK
    [] op = "Pipe" -> DSYS_PIPE2
    [] op = "Executable" -> DSYS_EXECUTABLE
    [] OTHER -> -1

(* C12: the 64 DSYS_* constants are exactly 0..63 in declaration order,    *)
(* pairwise distinct, and every report of a given operation carries one    *)
(* and the same identity out of that range.                                *)
C12_CatalogDense ==
  /\ Len(DeclarationOrder) = 64
  /\ \A i \in 1..Len(DeclarationOrder) : DeclarationOrder[i] = i - 1
  /\ \A i, j \in 1..Len(DeclarationOrder) : i # j => DeclarationOrder[i] # DeclarationOrder[j]
  /\ DSYS_READ = 0 /\ DSYS_WRITE = 1 /\ DSYS_OPEN = 2 /\ DSYS_CLOSE = 3 /\ DSYS_SLEEP = 63
  /\ \A t \in Threads :
       \A i \in 1..Len(fr[t].sent) :
         /\ fr[t].sent[i].id \in 0..63
         /\ \E k \in 1..Len(DeclarationOrder) :
              DeclarationOrder[k] = fr[t].sent[i].id /\ fr[t].sent[i].id = CatalogOf(fr[t].op)

C12_Witness ==
  \E t \in Threads : /\ fr[t].op = "openFileNolog"
                     /\ Len(fr[t].sent) = 1
                     /\ fr[t].sent[1].id = 2

Min(a, b) == IF a < b THEN a ELSE b

(* the slot holds the first min(L, C) bytes of src and nothing else *)
HoldsPrefix(v, src) ==
  /\ Len(v.String) = StringCap
  /\ \A i \in 1..StringCap :
       v.String[i] = IF i <= Min(Len(src), StringCap) THEN src[i] ELSE NUL
  /\ v.Integer = 0 /\ v.Integer64 = 0 /\ v.Unsupported = NoUnsupported

(* C13: encoding a String or FileHandle of length L into a slot of         *)
(* capacity C stores exactly the first min(L, C) bytes and touches nothing *)
(* else; a source of length C is stored unchanged, one of length C+1 loses *)
(* exactly its last byte, and encoding twice gives the same slot.          *)
C13_EncodeTruncates ==
  \A t \in Threads :
    (fr[t].op = "encode" /\ fr[t].pc # "first") =>
      LET src == fr[t].args.src
          v == fr[t].loc.first
      IN /\ v.Type = fr[t].args.kind
         /\ HoldsPrefix(v, src)
         /\ Len(src) = StringCap => v.String = src
         /\ Len(src) = StringCap + 1 => v.String = SubSeq(src, 1, Len(src) - 1)
         /\ fr[t].pc = "done" => fr[t].loc.second = v

C13_Witness ==
  \E t \in Threads : /\ fr[t].op = "encode"
                     /\ fr[t].pc = "done"
                     /\ Len(fr[t].args.src) = StringCap + 1
                     /\ fr[t].loc.first.String = SubSeq(fr[t].args.src, 1, StringCap)

(* C14: for read, pread, write and pwrite with the gate active the         *)
(* Array-kind argument slot carries the true length len(b) of the caller's *)
(* buffer, also when it exceeds the String capacity, and no buffer bytes.  *)
C14_ArrayCarriesTrueLength ==
  gate =>
    \A t \in Threads :
      (fr[t].op \in {"read", "pread", "write", "pwrite"} /\ Len(fr[t].sent) >= 1) =>
        LET a == fr[t].sent[1].info.Args[2] IN
          /\ a.Type = "ARRAY"
          /\ a.Integer = Len(fr[t].args.b)
          /\ a.String = ZeroString
          /\ a.Integer64 = 0
          /\ a.Unsupported = NoUnsupported

C14_Witness ==
  /\ gate
  /\ \E t \in Threads : /\ fr[t].op = "write"
                        /\ Len(fr[t].args.b) > StringCap
                        /\ Len(fr[t].sent) = 1
                        /\ fr[t].sent[1].info.Args[2].Integer = Len(fr[t].args.b)

(* a Pointer or Error slot is the placeholder and nothing but the placeholder *)
IsPlaceholder(v) ==
  v.Type \in {"POINTER", "ERROR"} =>
    /\ v.Unsupported = UNSUPPORTEDVAL
    /\ v.Integer = 0 /\ v.Integer64 = 0 /\ v.String = ZeroString

(* C15: every Pointer-kind and Error-kind slot of every delivered Event    *)
(* Record carries UNSUPPORTEDVAL and no handle or error detail, whether    *)
(* the real operation succeeded or failed.                                 *)
C15_PlaceholderOnly ==
  \A t \in Threads :
    \A i \in 1..Len(fr[t].sent) :
      fr[t].sent[i].hasInfo =>
        \A k \in 1..SlotCap :
          /\ IsPlaceholder(fr[t].sent[i].info.Args[k])
          /\ IsPlaceholder(fr[t].sent[i].info.Rets[k])

C15_Witness ==
  \E t \in Threads : /\ Done(t)
                     /\ fr[t].op = "Link"
                     /\ fr[t].ret.vals[1] # Nil
                     /\ Len(fr[t].sent) = 1
                     /\ fr[t].sent[1].info.Rets[1].Type = "ERROR"
                     /\ fr[t].sent[1].info.Rets[1].Unsupported = UNSUPPORTEDVAL

(* the record m describes the invocation in frame f: its arguments are     *)
(* f's arguments and its result slot is what f's real operation gives      *)
Describes(m, f) ==
  /\ m.hasInfo
  /\ m.id = CatalogOf(f.op)
  /\ f.op \in {"read", "pwrite"} =>
       /\ m.info.Args[1] = GT_FILE(f.args.f.name)
       /\ m.info.Args[2].Integer = Len(f.args.b)
       /\ m.info.Rets[1].Integer = f.env[1]
  /\ f.op = "pwrite" => m.info.Args[3].Integer64 = f.args.off
  /\ f.op = "Truncate" =>
       /\ m.info.Args[1] = GT_STRING(f.args.name)
       /\ m.info.Args[2].Integer64 = f.args.size
  /\ f.op = "Symlink" =>
       /\ m.info.Args[1] = GT_STRING(f.args.oldname)
       /\ m.info.Args[2] = GT_STRING(f.args.newname)

(* C16: under any interleaving of concurrent invocations with the gate     *)
(* active, every delivered Event Record describes exactly one invocation   *)
(* (its own arguments, its own real outcome), and each invocation has      *)
(* delivered exactly one record once it is past its report.                *)
C16_RecordsPerInvocation ==
  gate =>
    /\ \A i \in 1..Len(channel) :
         /\ Len(fr[channel[i].thread].sent) = 1
         /\ channel[i].msg = fr[channel[i].thread].sent[1]
    /\ \A t \in DOMAIN fr :
         /\ \A i \in 1..Len(fr[t].sent) : Describes(fr[t].sent[i], fr[t])
         /\ Done(t) => Len(fr[t].sent) = 1

(* the same with pwrite's result slot left out *)
C16_ArgsPerInvocation ==
  gate =>
    /\ \A i \in 1..Len(channel) :
         /\ Len(fr[channel[i].thread].sent) = 1
         /\ channel[i].msg = fr[channel[i].thread].sent[1]
    /\ \A t \in DOMAIN fr :
         /\ \A i \in 1..Len(fr[t].sent) :
              fr[t].op # "pwrite" => Describes(fr[t].sent[i], fr[t])
         /\ Done(t) => Len(fr[t].sent) = 1

(* the scheduler holds a report of goroutine t *)
Held(t) == \E i \in 1..Len(channel) : channel[i].thread = t

(* C17: report delivery is synchronous: while the scheduler holds a report *)
(* the invoking goroutine sits in its Report_Syscall_To_Scheduler call,    *)
(* has done nothing after the report and has not returned to its caller.   *)
C17_ReportSynchronous ==
  \A t \in DOMAIN fr :
    Held(t) =>
      /\ fr[t].pc = "blocked"
      /\ fr[t].ret = NoRet
      /\ Len(fr[t].ev) >= 1
      /\ fr[t].ev[Len(fr[t].ev)] = "report"

C17_Witness ==
  \E t \in DOMAIN fr, u \in DOMAIN fr :
    /\ t # u
    /\ Held(t)
    /\ fr[t].op = "Truncate"
    /\ Done(u)
    /\ fr[u].op = "Symlink"

(* C18: File.Stat on a nil *File returns (nil, ErrInvalid) whatever the    *)
(* gate: the instrumentation does not dereference the nil receiver.        *)
C18_StatNilErrInvalid ==
  \A t \in Threads :
    (Done(t) /\ fr[t].op = "Stat" /\ fr[t].args.f.nil) =>
      fr[t].ret = Returned(<<NilFileInfo, ErrInvalid>>)

ListedOps == {"read", "write", "pread", "pwrite", "seek", "openFileNolog", "close",
              "rename", "Truncate", "Link", "Symlink", "Pipe"}

(* C19: in every report of read, write, pread, pwrite, seek, open, close,  *)
(* rename, Truncate, Link, Symlink and Pipe the identity passed to the     *)
(* Reporting Channel equals the identity stored in the accompanying record *)
(* and both are the catalog constant of the wrapped operation.             *)
C19_IdentitiesAgree ==
  /\ \A t \in Threads :
       fr[t].op \in ListedOps =>
         \A i \in 1..Len(fr[t].sent) :
           LET m == fr[t].sent[i] IN
             /\ m.hasInfo
             /\ m.id = m.info.SyscallNum
             /\ m.info.SyscallNum =
                  (CASE fr[t].op = "read" -> DSYS_READ
                     [] fr[t].op = "write" -> DSYS_WRITE
                     [] fr[t].op = "pread" -> DSYS_PREAD64
                     [] fr[t].op = "pwrite" -> DSYS_PWRITE64
                     [] fr[t].op = "seek" -> DSYS_LSEEK
                     [] fr[t].op = "openFileNolog" -> DSYS_OPEN
                     [] fr[t].op = "close" -> DSYS_CLOSE
                     [] fr[t].op = "rename" -> DSYS_RENAME
                     [] fr[t].op = "Truncate" -> DSYS_TRUNCATE
                     [] fr[t].op = "Link" -> DSYS_LINK
                     [] fr[t].op = "Symlink" -> DSYS_SYMLINK
                     [] fr[t].op = "Pipe" -> DSYS_PIPE2)
  /\ \A i \in 1..Len(channel) :
       fr[channel[i].thread].op \in ListedOps => channel[i].msg.id = channel[i].msg.info.SyscallNum

C19_Witness ==
  \E t \in Threads : /\ fr[t].op = "Symlink"
                     /\ Len(fr[t].sent) = 1
                     /\ fr[t].sent[1].id = DSYS_SYMLINK
                     /\ fr[t].sent[1].info.SyscallNum = DSYS_SYMLINK

(* C20: with the gate active rename delivers a DSYS_RENAME report exactly  *)
(* when it goes on to the rename syscall; when newname is an existing      *)
(* directory it returns a LinkError (the oldname Lstat error if oldname is *)
(* bad, otherwise EEXIST), delivers no report and never calls rename.      *)
C20_RenameReportIffSyscall ==
  gate =>
    \A t \in Threads :
      fr[t].op = "rename" =>
        /\ \A i \in 1..Len(fr[t].sent) : fr[t].sent[i].id = DSYS_RENAME
        /\ Done(t) => (Len(fr[t].sent) = 1 <=> PerformedReal(fr[t]))
        /\ fr[t].env.newLstat = "dir" =>
             /\ fr[t].sent = <<>>
             /\ ~PerformedReal(fr[t])
             /\ Done(t) =>
                  /\ fr[t].ret.kind = "return"
                  /\ fr[t].ret.vals[1].kind = "LinkError"
                  /\ fr[t].ret.vals[1].Op = "rename"
                  /\ fr[t].ret.vals[1].Err =
                       (IF fr[t].env.oldErr # Nil THEN fr[t].env.oldErr ELSE EEXIST)
        /\ (fr[t].env.newLstat # "dir" /\ Done(t)) =>
             /\ Len(fr[t].sent) = 1
             /\ Count(fr[t].ev, "real") = 1

C20_Witness ==
  /\ gate
  /\ \E t \in Threads : /\ Done(t)
                        /\ fr[t].op = "rename"
                        /\ fr[t].env.newLstat = "dir"
                        /\ fr[t].sent = <<>>
                        /\ fr[t].ret.vals[1].Err = EEXIST

(* C21: with the gate active, one call of openFileNolog delivers exactly    *)
(* one DSYS_OPEN report however many times syscall.Open is retried after   *)
(* EINTR (the darwin loop), that report precedes every attempt, and when   *)
(* an attempt fails with any other error the call returns                  *)
(* PathError("open", name, e) with that single report delivered.           *)
C21_OneOpenReportAcrossRetries ==
  gate =>
    \A t \in Threads :
      fr[t].op = "openFileNolog" =>
        LET f == fr[t]
            n == Count(f.ev, "real")
        IN /\ Len(f.sent) <= 1
           /\ \A i \in 1..Len(f.sent) : f.sent[i].id = DSYS_OPEN
           /\ Count(f.ev, "report") = Len(f.sent)
           /\ n > 0 => (Len(f.sent) = 1 /\ f.ev[1] = "report")
           /\ \A j \in 1..n : j < n => (GOOS = "darwin" /\ f.env[j][2] = EINTR)
           /\ Done(t) =>
                /\ n >= 1
                /\ Len(f.sent) = 1
                /\ f.env[n][2] # Nil =>
                     /\ f.ret = Returned(<<NilFile, PathError("open", f.args.name, f.env[n][2])>>)
                     /\ GOOS = "darwin" => f.env[n][2] # EINTR

(* a darwin call that was interrupted MaxEintr times, then failed *)
C21_Witness ==
  /\ gate
  /\ GOOS = "darwin"
  /\ \E t \in Threads : /\ Done(t)
                        /\ fr[t].op = "openFileNolog"
                        /\ Count(fr[t].ev, "real") = MaxEintr + 1
                        /\ Len(fr[t].sent) = 1
                        /\ fr[t].ret = Returned(<<NilFile, PathError("open", fr[t].args.name, Errno("ENOENT"))>>)

(* position of the first occurrence of an event in an invocation's order *)
First(seq, x) == CHOOSE i \in 1..Len(seq) : seq[i] = x /\ \A j \in 1..(i - 1) : seq[j] # x

(* the invocation holds the ForkLock read lock *)
HoldsForkLock(f) == Count(f.ev, "rlock") > Count(f.ev, "runlock")

(* C22: in Pipe's fallback path (pipe2 gave ENOSYS) ForkLock.RLock comes    *)
(* before syscall.Pipe and ForkLock.RUnlock happens exactly once on every  *)
(* way out: before the SyscallError return when pipe fails, after both     *)
(* CloseOnExec calls when it succeeds.  Pipe never returns holding the     *)
(* lock and never unlocks a lock it did not take.                          *)
C22_ForkLockBalanced ==
  /\ ForkLock >= 0
  /\ ForkLock = Cardinality({t \in Threads : HoldsForkLock(fr[t])})
  /\ \A t \in Threads :
       fr[t].op = "Pipe" =>
         LET f == fr[t]
             locks == Count(f.ev, "rlock")
             unlocks == Count(f.ev, "runlock")
         IN /\ unlocks <= locks
            /\ locks <= 1
            /\ locks = 1 => f.env.pipe2 = ENOSYS
            /\ (PerformedReal(f) /\ f.env.pipe2 = ENOSYS) =>
                 (locks = 1 /\ First(f.ev, "rlock") < First(f.ev, "real"))
            /\ unlocks = 1 =>
                 /\ First(f.ev, "rlock") < First(f.ev, "real")
                 /\ First(f.ev, "real") < First(f.ev, "runlock")
                 /\ IF f.env.pipe = Nil
                      THEN /\ Count(f.ev, "cloexec") = 2
                           /\ \A i \in 1..Len(f.ev) :
                                f.ev[i] = "cloexec" => i < First(f.ev, "runlock")
                      ELSE Count(f.ev, "cloexec") = 0
            /\ Done(t) =>
                 /\ ~HoldsForkLock(f)
                 /\ (f.env.pipe2 = ENOSYS /\ f.ret # Panicked) => (locks = 1 /\ unlocks = 1)
                 /\ (f.env.pipe2 = ENOSYS /\ f.ret # Panicked /\ f.env.pipe # Nil) =>
                      f.ret = Returned(<<NilFile, NilFile, NewSyscallError("pipe", f.env.pipe)>>)

(* the fallback left through the failure of syscall.Pipe *)
C22_Witness ==
  \E t \in Threads : /\ Done(t)
                      /\ fr[t].op = "Pipe"
                      /\ fr[t].env.pipe2 = ENOSYS
                      /\ fr[t].env.pipe # Nil
                      /\ fr[t].ev = <<"rlock", "real", "runlock">>
                      /\ ForkLock = 0

====
